---- MODULE Spec2Model ----
(***************************************************************************)
(* Model of src/terminal_monitor.py: the WebsiteMonitor polling loop       *)
(* (run), one probe (check_website), the statistics (calculate_statistics),*)
(* the bounded history, the signal handler (handle_exit) and the URL check *)
(* of the constructor (validate_url).                                      *)
(*                                                                         *)
(* Conventions                                                             *)
(*  - Python None is the empty sequence <<>>, a present value v is <<v>>.  *)
(*  - Values the code rounds to one decimal (avg, success_rate) are held   *)
(*    as integer tenths: 60.0 is 600, 1.2 is 12.                           *)
(*  - The main thread's position is pc. hpc is the position of the         *)
(*    innermost active frame of handle_exit ("idle": none). A Python       *)
(*    signal handler runs on the main thread before the interrupted code   *)
(*    resumes, so the main thread only moves while hpc is "idle"; and as   *)
(*    handle_exit never returns (it ends in sys.exit), a frame that a      *)
(*    further signal interrupts is never resumed and needs no state.       *)
(*  - A timestamp is the wall clock in whole seconds (the code formats it  *)
(*    with one-second resolution); the clock advances with time.sleep(1).  *)
(*  - Signal is the interpreter entering handle_exit, which it does        *)
(*    between two statements of the main thread or of handle_exit itself.  *)
(*    A signal the process never hands to handle_exit is no Signal.        *)
(*  - log is a history variable: the results requests.get gave and the     *)
(*    dicts check_website returned, call by call.                          *)
(*  - A URL is the sequence of its characters.                             *)
(***************************************************************************)
EXTENDS Integers, Sequences, FiniteSets, TLC

\* ---------------------------------------------------------------- bounds
MaxChecks == 2
MaxTicks == 11
MaxSamples == 4
MaxSignals == 2
MaxInterval == 1
MaxUrlLen == 3

\* ------------------------------------------------------- program constants
HistoryCapacity == 10
RecentShown == 5
ErrorStatus == 400

None == <<>>
Some(v) == <<v>>

\* ------------------------------------------------------------ environment
\* What one requests.get can do: return a response (status code, measured
\* latency in ms) or raise one of the exception classes check_website tells
\* apart.
ExceptionKinds == {"Timeout", "ConnectionError", "RequestException", "Exception"}

Response(code, ms) == [kind |-> "response", status_code |-> code, ms |-> ms]
Raised(k) == [kind |-> k, status_code |-> 0, ms |-> 0]

AnyResults ==
    {Response(200, 1), Response(404, 2)} \cup {Raised(k) : k \in ExceptionKinds}

Repeat(n, S) == [i \in 1..n |-> S]

\* A site is the sequence of sets of results its successive probes may give;
\* its length is the number of probes explored against it.
Sites ==
    { Repeat(MaxChecks, AnyResults),
      Repeat(MaxChecks, {Response(399, 1), Response(400, 1)}),
      Repeat(MaxSamples, {Response(200, 1), Response(200, 2)}),
      Repeat(MaxTicks, {Response(200, 50)}),
      Repeat(MaxTicks, {Raised("Timeout")}),
      <<{Response(200, 100)}, {Response(200, 200)}, {Response(200, 300)},
        {Raised("Timeout")}, {Raised("Timeout")}>> }

VARIABLES
    args_url,        \* args.url, the command line's URL
    url,             \* self.url
    site,            \* environment: what the monitored site answers
    interval,        \* self.interval
    response_times,  \* self.response_times
    success_count,   \* self.success_count
    error_count,     \* self.error_count
    running,         \* self.running
    last_status,     \* self.last_status (status_data in run is the same dict)
    has_history,     \* hasattr(self, 'history')
    history,         \* self.history
    pc,              \* position of the main thread
    cur,             \* check_website's locals: timestamp and the result of get
    i,               \* sleep increments done in the current wait
    clock,           \* wall clock, seconds
    hpc,             \* position of the innermost handle_exit frame
    signals,         \* signals delivered so far
    shown,           \* records printed in this tick's recent-checks block
    summaries,       \* the summaries printed so far
    loop_error,      \* "Error in monitoring loop" has been printed
    fault,           \* environment: a print call of the tick has raised
    exited,          \* the process has ended
    exit_code,       \* its exit code
    log              \* what check_website returned so far, with what get gave

vars == <<args_url, url, site, interval, response_times, success_count, error_count, running,
          last_status, has_history, history, pc, cur, i, clock, hpc,
          signals, shown, summaries, loop_error, fault, exited, exit_code,
          log>>

\* ------------------------------------------------------------- statistics
RECURSIVE SeqSum(_)
SeqSum(s) == IF s = <<>> THEN 0 ELSE Head(s) + SeqSum(Tail(s))

Range(s) == {s[k] : k \in 1..Len(s)}

\* Mutant: the first sample taken for the least.
SeqMin_First(s) == s[1]

SeqMin(s) == CHOOSE x \in Range(s) : \A y \in Range(s) : x <= y

SeqMax(s) == CHOOSE x \in Range(s) : \A y \in Range(s) : x >= y

\* round(num / den, 1) in tenths. Python's round goes to the nearest tenth
\* and, on an exact tie, to the even one; for the integer data and the run
\* lengths modelled every tie (x.25, x.75) is exact in binary.
Round1(num, den) ==
    LET q == (10 * num) \div den
        r == (10 * num) % den
    IN  IF 2 * r < den THEN q
        ELSE IF 2 * r > den THEN q + 1
        ELSE IF q % 2 = 0 THEN q ELSE q + 1

\* Mutant: the rate of failures instead of successes.
SuccessRate_OfErrors(sc, ec) ==
    LET total_checks == sc + ec
    IN  IF total_checks > 0 THEN Round1(ec * 100, total_checks) ELSE 0

SuccessRate(sc, ec) ==
    LET total_checks == sc + ec
    IN  IF total_checks > 0 THEN Round1(sc * 100, total_checks) ELSE 0

\* Mutant: the success rate taken over the latency samples (count) instead
\* of over all checks.
calculate_statistics_RateOverCount(rt, sc, ec) ==
    [ count        |-> Len(rt),
      min          |-> IF rt # <<>> THEN Some(SeqMin(rt)) ELSE None,
      max          |-> IF rt # <<>> THEN Some(SeqMax(rt)) ELSE None,
      avg          |-> IF rt # <<>> THEN Some(Round1(SeqSum(rt), Len(rt))) ELSE None,
      success_rate |-> IF rt # <<>> THEN Round1(sc * 100, Len(rt)) ELSE 0 ]

calculate_statistics(rt, sc, ec) ==
    [ count        |-> Len(rt),
      min          |-> IF rt # <<>> THEN Some(SeqMin(rt)) ELSE None,
      max          |-> IF rt # <<>> THEN Some(SeqMax(rt)) ELSE None,
      avg          |-> IF rt # <<>> THEN Some(Round1(SeqSum(rt), Len(rt))) ELSE None,
      success_rate |-> SuccessRate(sc, ec) ]

Stats == calculate_statistics(response_times, success_count, error_count)

\* What print_summary writes.
Summary ==
    [ total      |-> success_count + error_count,
      successful |-> success_count,
      failed     |-> error_count,
      stats      |-> Stats ]

\* --------------------------------------------------------------- records
NoStatus == [timestamp |-> 0, status |-> "", code |-> None,
             response_time |-> None, indicator |-> ""]

NoCall == [timestamp |-> 0, result |-> Raised("none")]

\* The dict check_website builds from its locals after the try statement.
StatusOf(r) ==
    IF r.kind = "response"
    THEN IF r.status_code < ErrorStatus
         THEN [status |-> "Online (HTTP)", code |-> Some(r.status_code),
               response_time |-> Some(r.ms), indicator |-> "ok"]
         ELSE [status |-> "Error (HTTP)", code |-> Some(r.status_code),
               response_time |-> Some(r.ms), indicator |-> "warn"]
    ELSE [status |-> CASE r.kind = "Timeout" -> "Timeout"
                       [] r.kind = "ConnectionError" -> "Connection Failed"
                       [] r.kind = "RequestException" -> "Request Error"
                       [] OTHER -> "Error",
          code |-> None, response_time |-> None, indicator |-> "fail"]

StatusData(c) ==
    LET s == StatusOf(c.result)
    IN  [timestamp |-> c.timestamp, status |-> s.status, code |-> s.code,
         response_time |-> s.response_time, indicator |-> s.indicator]

LastN(s, n) == IF Len(s) <= n THEN s ELSE SubSeq(s, Len(s) - n + 1, Len(s))

\* ------------------------------------------------------------------- URLs
HttpPrefix == <<"h", "t", "t", "p", ":", "/", "/">>

NotAUrl == <<"n", "o", "t", " ", "a", " ", "u", "r", "l">>

ExampleCom == <<"e", "x", "a", "m", "p", "l", "e", ".", "c", "o", "m">>

Letters == {"a", "c", "e", "h", "l", "m", "n", "o", "p", "r", "t", "u", "x"}

\* urllib.parse.scheme_chars, as far as the modelled alphabet goes.
SchemeChars == Letters \cup {"+", "-", "."}

UrlChars == {"a", ":", "/", "?", " "}

SeqsUpTo(S, n) == UNION {[1..k -> S] : k \in 0..n}

\* The command lines explored.
Urls == SeqsUpTo(UrlChars, MaxUrlLen) \cup {NotAUrl, ExampleCom, HttpPrefix \o <<"a">>}

RECURSIVE LStrip(_)
LStrip(u) == IF u # <<>> /\ Head(u) = " " THEN LStrip(Tail(u)) ELSE u

\* str.find for a set of characters: the first position holding one, 0 if none.
Find(u, S) ==
    IF \E k \in 1..Len(u) : u[k] \in S
    THEN CHOOSE k \in 1..Len(u) : u[k] \in S /\ \A j \in 1..(k - 1) : u[j] \notin S
    ELSE 0

\* The scheme and netloc urlparse gives (urllib.parse.urlsplit): leading
\* spaces are dropped; the text before the first colon is the scheme if it
\* starts with a letter and holds scheme characters only; the netloc is
\* what follows a "//" at the start of the rest, up to the next "/", "?"
\* or "#".
urlparse(u) ==
    LET u1 == LStrip(u)
        c == Find(u1, {":"})
        has_scheme == /\ c > 1
                      /\ u1[1] \in Letters
                      /\ \A k \in 1..(c - 1) : u1[k] \in SchemeChars
        rest == IF has_scheme THEN SubSeq(u1, c + 1, Len(u1)) ELSE u1
        has_netloc == Len(rest) >= 2 /\ rest[1] = "/" /\ rest[2] = "/"
        after == SubSeq(rest, 3, Len(rest))
        d == Find(after, {"/", "?", "#"})
    IN  [ scheme |-> IF has_scheme THEN SubSeq(u1, 1, c - 1) ELSE <<>>,
          netloc |-> IF ~has_netloc THEN <<>>
                     ELSE IF d = 0 THEN after ELSE SubSeq(after, 1, d - 1) ]

\* Line 70-71.
Normalized(u) == IF urlparse(u).scheme = <<>> THEN HttpPrefix \o u ELSE u

\* Line 75: all([result.scheme, result.netloc]).
WellFormed(u) == urlparse(u).scheme # <<>> /\ urlparse(u).netloc # <<>>

\* ------------------------------------------------------------------ Init
\* The monitor as constructed for a well-formed URL.
Init ==
    /\ args_url = <<"a">>
    /\ url = HttpPrefix \o <<"a">>
    /\ site \in Sites
    /\ interval \in 0..MaxInterval
    /\ response_times = <<>>
    /\ success_count = 0
    /\ error_count = 0
    /\ running = TRUE
    /\ last_status = NoStatus
    /\ has_history = FALSE
    /\ history = <<>>
    /\ pc = "while"
    /\ cur = NoCall
    /\ i = 0
    /\ clock = 0
    /\ hpc = "idle"
    /\ signals = 0
    /\ shown = <<>>
    /\ summaries = <<>>
    /\ loop_error = FALSE
    /\ fault = FALSE
    /\ exited = FALSE
    /\ exit_code = 0
    /\ log = <<>>

MainRuns == ~exited /\ hpc = "idle"

\* -------------------------------------------------------- check_website
CheckVars == <<args_url, url, site, interval, running, has_history, history, i, clock,
               hpc, signals, shown, summaries, loop_error, fault, exited,
               exit_code>>

\* Lines 107-114: the timestamp is taken, then requests.get returns a
\* response or raises.
Check_Request ==
    /\ MainRuns /\ pc = "request"
    /\ Len(log) < Len(site)
    /\ \E r \in site[Len(log) + 1] :
          /\ cur' = [timestamp |-> clock, result |-> r]
          /\ pc' = IF r.kind = "response" THEN "append" ELSE "except"
    /\ UNCHANGED <<CheckVars, response_times, success_count, error_count,
                   last_status, log>>

\* Mutant: the latency is recorded for successful responses only.
Check_Append_OnlineOnly ==
    /\ MainRuns /\ pc = "append"
    /\ response_times' = IF cur.result.status_code < ErrorStatus
                         THEN Append(response_times, cur.result.ms)
                         ELSE response_times
    /\ pc' = "classify"
    /\ UNCHANGED <<CheckVars, success_count, error_count, last_status, cur, log>>

\* Lines 115-119.
Check_Append ==
    /\ MainRuns /\ pc = "append"
    /\ response_times' = Append(response_times, cur.result.ms)
    /\ pc' = "classify"
    /\ UNCHANGED <<CheckVars, success_count, error_count, last_status, cur, log>>

\* Mutant: an except clause that also stops the loop.
Check_Except_Fatal ==
    /\ MainRuns /\ pc = "except"
    /\ error_count' = error_count + 1
    /\ running' = FALSE
    /\ pc' = "result"
    /\ UNCHANGED <<args_url, url, site, interval, has_history, history, i, clock, hpc,
                   signals, shown, summaries, loop_error, fault, exited,
                   exit_code, response_times, success_count, last_status, cur,
                   log>>

\* Mutant: status 400 itself taken for a success.
Check_Classify_OffByOne ==
    /\ MainRuns /\ pc = "classify"
    /\ IF cur.result.status_code <= ErrorStatus
       THEN success_count' = success_count + 1 /\ UNCHANGED error_count
       ELSE error_count' = error_count + 1 /\ UNCHANGED success_count
    /\ pc' = "result"
    /\ UNCHANGED <<CheckVars, response_times, last_status, cur, log>>

\* Lines 122-129.
Check_Classify ==
    /\ MainRuns /\ pc = "classify"
    /\ IF cur.result.status_code < ErrorStatus
       THEN success_count' = success_count + 1 /\ UNCHANGED error_count
       ELSE error_count' = error_count + 1 /\ UNCHANGED success_count
    /\ pc' = "result"
    /\ UNCHANGED <<CheckVars, response_times, last_status, cur, log>>

\* Mutant: an except clause that forgets to count the failure.
Check_Except_Uncounted ==
    /\ MainRuns /\ pc = "except"
    /\ pc' = "result"
    /\ UNCHANGED <<CheckVars, response_times, success_count, error_count,
                   last_status, cur, log>>

\* Lines 131-157: each of the four except clauses counts one error.
Check_Except ==
    /\ MainRuns /\ pc = "except"
    /\ error_count' = error_count + 1
    /\ pc' = "result"
    /\ UNCHANGED <<CheckVars, response_times, success_count, last_status, cur, log>>

\* Lines 159-167.
Check_Return ==
    /\ MainRuns /\ pc = "result"
    /\ last_status' = StatusData(cur)
    /\ log' = Append(log, [result |-> cur.result, record |-> last_status'])
    /\ pc' = "render"
    /\ UNCHANGED <<CheckVars, response_times, success_count, error_count, cur>>

\* ------------------------------------------------------------------- run
RunVars == <<args_url, url, site, interval, response_times, success_count, error_count,
             last_status, cur, hpc, signals, exited, exit_code, log>>

Quiet == <<loop_error, fault>>

\* Line 265.
Run_While ==
    /\ MainRuns /\ pc = "while"
    /\ pc' = IF running THEN "header" ELSE "finally"
    /\ UNCHANGED <<RunVars, running, has_history, history, i, clock, shown,
                   summaries, Quiet>>

\* Line 266: print_header clears the screen.
Run_PrintHeader ==
    /\ MainRuns /\ pc = "header"
    /\ shown' = <<>>
    /\ pc' = "request"
    /\ UNCHANGED <<RunVars, running, has_history, history, i, clock,
                   summaries, Quiet>>

\* Lines 277-281: what the recent-checks block prints.
RecentChecks ==
    IF has_history /\ Len(history) > 1
    THEN SelectSeq(LastN(history, RecentShown), LAMBDA hist : hist # last_status)
    ELSE <<>>

\* Lines 270-281: the status line, the statistics and the recent checks.
Run_Render ==
    /\ MainRuns /\ pc = "render"
    /\ shown' = RecentChecks
    /\ pc' = "push"
    /\ UNCHANGED <<RunVars, running, has_history, history, i, clock,
                   summaries, Quiet>>

\* Lines 284-286.
Run_HistoryAppend ==
    /\ MainRuns /\ pc = "push"
    /\ has_history' = TRUE
    /\ history' = Append(history, last_status)
    /\ pc' = "trim"
    /\ UNCHANGED <<RunVars, running, i, clock, shown, summaries, Quiet>>

\* Mutant: pop() instead of pop(0) discards the newest record.
Run_HistoryTrim_PopLast ==
    /\ MainRuns /\ pc = "trim"
    /\ history' = IF Len(history) > HistoryCapacity
                  THEN SubSeq(history, 1, Len(history) - 1) ELSE history
    /\ pc' = "wait"
    /\ UNCHANGED <<RunVars, running, has_history, i, clock, shown, summaries,
                   Quiet>>

\* Lines 287-288.
Run_HistoryTrim ==
    /\ MainRuns /\ pc = "trim"
    /\ history' = IF Len(history) > HistoryCapacity THEN Tail(history) ELSE history
    /\ pc' = "wait"
    /\ UNCHANGED <<RunVars, running, has_history, i, clock, shown, summaries,
                   Quiet>>

\* Lines 291-292: the wait is entered only while running.
Run_Wait ==
    /\ MainRuns /\ pc = "wait"
    /\ IF running THEN i' = 0 /\ pc' = "sleep" ELSE i' = i /\ pc' = "while"
    /\ UNCHANGED <<RunVars, running, has_history, history, clock, shown,
                   summaries, Quiet>>

\* Mutant: range(self.interval + 1) sleeps once more.
Run_Sleep_OneMore ==
    /\ MainRuns /\ pc = "sleep"
    /\ IF i <= interval /\ running
       THEN i' = i + 1 /\ clock' = clock + 1 /\ pc' = "sleep"
       ELSE i' = i /\ clock' = clock /\ pc' = "while"
    /\ UNCHANGED <<RunVars, running, has_history, history, shown, summaries,
                   Quiet>>

\* Lines 292-295: one iteration of the for loop, or its end.
Run_Sleep ==
    /\ MainRuns /\ pc = "sleep"
    /\ IF i < interval /\ running
       THEN i' = i + 1 /\ clock' = clock + 1 /\ pc' = "sleep"
       ELSE i' = i /\ clock' = clock /\ pc' = "while"
    /\ UNCHANGED <<RunVars, running, has_history, history, shown, summaries,
                   Quiet>>

\* An exception raised by one of the tick's print calls (for instance
\* UnicodeEncodeError on the status indicator) leaves the tick; what the
\* failed call had printed of the recent-checks block is not kept.
PrintPcs == {"header", "render"}

RaiseInTick ==
    /\ MainRuns /\ pc \in PrintPcs
    /\ fault' = TRUE
    /\ pc' = "except_run"
    /\ UNCHANGED <<RunVars, running, has_history, history, i, clock, shown,
                   summaries, loop_error>>

\* Lines 297-298.
Run_Except ==
    /\ MainRuns /\ pc = "except_run"
    /\ loop_error' = TRUE
    /\ pc' = "stop"
    /\ UNCHANGED <<RunVars, running, has_history, history, i, clock, shown,
                   summaries, fault>>

\* Line 299.
Run_ExceptStop ==
    /\ MainRuns /\ pc = "stop"
    /\ running' = FALSE
    /\ pc' = "finally"
    /\ UNCHANGED <<RunVars, has_history, history, i, clock, shown, summaries,
                   Quiet>>

\* Lines 300-302.
FinallySummaries == IF running THEN Append(summaries, Summary) ELSE summaries

Run_Finally ==
    /\ MainRuns /\ pc = "finally"
    /\ summaries' = FinallySummaries
    /\ pc' = "returned"
    /\ UNCHANGED <<RunVars, running, has_history, history, i, clock, shown,
                   Quiet>>

\* Lines 320-323: run returns to main, main returns, the interpreter exits.
Main_Return ==
    /\ MainRuns /\ pc = "returned"
    /\ exited' = TRUE
    /\ exit_code' = 0
    /\ pc' = "exit"
    /\ UNCHANGED <<args_url, url, site, interval, response_times, success_count, error_count,
                   running, last_status, has_history, history, cur, i, clock,
                   hpc, signals, shown, summaries, loop_error, fault, log>>

\* ------------------------------------------------------------ handle_exit
HandlerVars == <<args_url, url, site, interval, response_times, success_count, error_count,
                 last_status, has_history, history, pc, cur, i, clock, shown,
                 loop_error, fault, log>>

\* SIGINT or SIGTERM: the interpreter enters handle_exit (lines 62-63, 82-84).
Signal ==
    /\ ~exited /\ signals < MaxSignals
    /\ signals' = signals + 1
    /\ hpc' = "h_stop"
    /\ UNCHANGED <<HandlerVars, running, summaries, exited, exit_code>>

\* Mutant: a handler that returns instead of calling sys.exit.
HandleExit_Exit_Returns ==
    /\ ~exited /\ hpc = "h_exit"
    /\ hpc' = "idle"
    /\ UNCHANGED <<HandlerVars, signals, running, summaries, exited, exit_code>>

\* Line 85.
HandleExit_Stop ==
    /\ ~exited /\ hpc = "h_stop"
    /\ running' = FALSE
    /\ hpc' = "h_summary"
    /\ UNCHANGED <<HandlerVars, signals, summaries, exited, exit_code>>

\* Line 86.
HandleExit_Summary ==
    /\ ~exited /\ hpc = "h_summary"
    /\ summaries' = Append(summaries, Summary)
    /\ hpc' = "h_exit"
    /\ UNCHANGED <<HandlerVars, signals, running, exited, exit_code>>

\* Line 87: SystemExit leaves every handler frame and the main thread's
\* stack. It is no Exception, so neither check_website's nor run's except
\* clause catches it; run's finally clause runs if the main thread was
\* inside the try statement.
TryPcs == {"while", "header", "request", "append", "classify", "except",
           "result", "render", "push", "trim", "wait", "sleep", "except_run",
           "stop"}

HandleExit_Exit ==
    /\ ~exited /\ hpc = "h_exit"
    /\ summaries' = IF pc \in TryPcs THEN FinallySummaries ELSE summaries
    /\ hpc' = "idle"
    /\ exited' = TRUE
    /\ exit_code' = 0
    /\ UNCHANGED <<HandlerVars, signals, running>>

\* ------------------------------------------------------------------ Next
check_website ==
    \/ Check_Request
    \/ Check_Append
    \/ Check_Classify
    \/ Check_Except
    \/ Check_Return

run ==
    \/ Run_While
    \/ Run_PrintHeader
    \/ check_website
    \/ Run_Render
    \/ Run_HistoryAppend
    \/ Run_HistoryTrim
    \/ Run_Wait
    \/ Run_Sleep
    \/ Run_Except
    \/ Run_ExceptStop
    \/ Run_Finally

handle_exit ==
    \/ HandleExit_Stop
    \/ HandleExit_Summary
    \/ HandleExit_Exit

Next ==
    \/ run
    \/ Main_Return
    \/ handle_exit
    \/ Signal
    \/ RaiseInTick

Spec == Init /\ [][Next]_vars

\* The interpreter keeps executing the main thread and any handler it has
\* entered; signals and print failures are the environment's and need not
\* happen.
FairSpec == Spec /\ WF_vars(run \/ Main_Return) /\ WF_vars(handle_exit)

\* ---------------------------------------------------------- validate_url
\* The constructor, from the call of validate_url on (line 66). The signal
\* handlers are installed before it (lines 62-63), so Signal and
\* handle_exit can act while the URL is being checked; the constructor is
\* outside run's try statement (TryPcs).
ValidateVars == <<args_url, site, interval, response_times, success_count,
                  error_count, running, last_status, has_history, history,
                  cur, i, clock, hpc, signals, shown, summaries, loop_error,
                  fault, log>>

\* Lines 70-71.
Validate_Normalize ==
    /\ MainRuns /\ pc = "normalize"
    /\ url' = Normalized(url)
    /\ pc' = "validate"
    /\ UNCHANGED <<ValidateVars, exited, exit_code>>

\* Lines 73-80, and main's call of run (line 320) when the URL passes.
Validate_Check ==
    /\ MainRuns /\ pc = "validate"
    /\ IF WellFormed(url)
       THEN pc' = "while" /\ UNCHANGED <<exited, exit_code>>
       ELSE pc' = "exit" /\ exited' = TRUE /\ exit_code' = 1
    /\ UNCHANGED <<ValidateVars, url>>

validate_url ==
    \/ Validate_Normalize
    \/ Validate_Check

\* One probe, answered or not.
UrlSite == <<{Response(200, 1), Raised("ConnectionError")}>>

\* The process from the construction of the monitor on (main, line 319),
\* for any command-line URL.
UrlInit ==
    /\ args_url \in Urls
    /\ url = args_url
    /\ site = UrlSite
    /\ interval = 0
    /\ response_times = <<>>
    /\ success_count = 0
    /\ error_count = 0
    /\ running = TRUE
    /\ last_status = NoStatus
    /\ has_history = FALSE
    /\ history = <<>>
    /\ pc = "normalize"
    /\ cur = NoCall
    /\ i = 0
    /\ clock = 0
    /\ hpc = "idle"
    /\ signals = 0
    /\ shown = <<>>
    /\ summaries = <<>>
    /\ loop_error = FALSE
    /\ fault = FALSE
    /\ exited = FALSE
    /\ exit_code = 0
    /\ log = <<>>

UrlNext ==
    \/ validate_url
    \/ Next

UrlSpec == UrlInit /\ [][UrlNext]_vars

\* ================================================================ claims
\* What requests.get gave, and what check_website returned, call by call.
LogResults == [k \in 1..Len(log) |-> log[k].result]

LogRecords == [k \in 1..Len(log) |-> log[k].record]

HasLatency(r) == r.kind = "response"

IsOnline(r) == r.kind = "response" /\ r.status_code < 400

IsFailure(r) == ~IsOnline(r)

CountOf(P(_), s) == Cardinality({k \in 1..Len(s) : P(s[k])})

RECURSIVE LatenciesOf(_)
LatenciesOf(s) ==
    IF s = <<>> THEN <<>>
    ELSE IF HasLatency(Head(s)) THEN <<Head(s).ms>> \o LatenciesOf(Tail(s))
    ELSE LatenciesOf(Tail(s))

IsPrefix(s, t) == Len(s) <= Len(t) /\ SubSeq(t, 1, Len(s)) = s

\* The main thread is between two calls of check_website.
BetweenChecks == pc \notin {"append", "classify", "except", "result"}

\* ---------------------------------------------------------------------
\* C1: after n completed check_website calls, whatever their outcomes,
\* success_count + error_count = n (a call that has counted and not yet
\* returned is one ahead); the counters change only on the one counting step
\* of a call, which raises exactly one of them by exactly one.
C1_CountersSumToCalls ==
    /\ [](success_count + error_count
            = Len(log) + (IF pc = "result" THEN 1 ELSE 0))
    /\ [][ \/ /\ success_count' = success_count
              /\ error_count' = error_count
           \/ /\ pc \in {"classify", "except"} /\ pc' = "result"
              /\ \/ success_count' = success_count + 1 /\ error_count' = error_count
                 \/ error_count' = error_count + 1 /\ success_count' = success_count
         ]_vars

C1_Witness ==
    /\ pc = "render" /\ Len(log) = 2
    /\ {log[1].result.kind, log[2].result.kind} = {"response", "Timeout"}
    /\ success_count = 1 /\ error_count = 1

\* ---------------------------------------------------------------------
\* C2: calculate_statistics().count is the length of response_times; a check
\* appends exactly one latency when its outcome is Online or HttpError and
\* none when it is Timeout, ConnectionFailure, RequestError or UnknownError
\* (so response_times is the latencies of the responses received, in order);
\* response_times never shrinks.
InFlightLatency ==
    IF pc \in {"classify", "result"} /\ HasLatency(cur.result)
    THEN <<cur.result.ms>> ELSE <<>>

C2_LatenciesOfResponsesOnly ==
    /\ [](/\ Stats.count = Len(response_times)
          /\ response_times = LatenciesOf(LogResults) \o InFlightLatency)
    /\ [][/\ IsPrefix(response_times, response_times')
          /\ Len(response_times') <= Len(response_times) + 1]_vars

C2_Witness ==
    /\ pc = "render" /\ Len(log) = 2
    /\ log[1].result = Response(404, 2)
    /\ log[2].result.kind = "ConnectionError"
    /\ response_times = <<2>>

\* ---------------------------------------------------------------------
\* C3 as stated: the success rate is in [0, 100] and is 0 exactly when no
\* checks have been recorded.
C3_ZeroRateIffNoChecks ==
    /\ Stats.success_rate \in 0..1000
    /\ (Stats.success_rate = 0) <=> (success_count + error_count = 0)

\* C3 as amended: the success rate is in [0, 100]; it is 0 whenever no check
\* has succeeded, which covers the case of no checks recorded, and it is
\* above 0 only if some check succeeded.
C3_ZeroRateWhenNoSuccess ==
    LET rate == Stats.success_rate
    IN  /\ rate \in 0..1000
        /\ (success_count + error_count = 0) => rate = 0
        /\ (success_count = 0) => rate = 0
        /\ (rate > 0) => success_count > 0

C3_Witness ==
    /\ pc = "render"
    /\ success_count = 0 /\ error_count = 2
    /\ Stats.success_rate = 0

\* ---------------------------------------------------------------------
\* C4: except between the append and the trim of one tick, history holds at
\* most 10 records; from the end of a tick until the next push it is exactly
\* the last min(n, 10) records returned, in the order taken; after 11 pushes
\* it is the 2nd to 11th.
TickEnded ==
    pc \in {"wait", "sleep", "while", "header", "request", "append",
            "classify", "except"}

C4_HistoryIsLastTen ==
    /\ (pc # "trim") => Len(history) <= 10
    /\ TickEnded =>
          LET n == Len(log)
              first == IF n > 10 THEN n - 9 ELSE 1
          IN  /\ Len(history) = (IF n < 10 THEN n ELSE 10)
              /\ \A k \in 1..Len(history) : history[k] = log[first + k - 1].record
    /\ (TickEnded /\ Len(log) = 11) => history = SubSeq(LogRecords, 2, 11)

C4_Witness ==
    /\ pc = "wait" /\ Len(log) = 11 /\ interval = 1
    /\ Len(history) = 10
    /\ history[1] = log[2].record /\ history[10] = log[11].record
    /\ \A k \in 1..Len(history) : history[k] # log[1].record

IsErrorCall == pc = "result" /\ IsFailure(cur.result)

C7_StatusCodeDecidesCounter ==
    (pc = "result" /\ cur.result.kind = "response") =>
        LET code == cur.result.status_code
            ok == CountOf(IsOnline, LogResults)
            bad == CountOf(IsFailure, LogResults)
        IN  /\ response_times = Append(LatenciesOf(LogResults), cur.result.ms)
            /\ code >= 400 => (error_count = bad + 1 /\ success_count = ok)
            /\ code < 400 => (success_count = ok + 1 /\ error_count = bad)

C7_Witness ==
    /\ pc = "result" /\ cur.result = Response(400, 1)
    /\ log # <<>> /\ log[1].result = Response(399, 1)
    /\ success_count = 1 /\ error_count = 1
    /\ response_times = <<1, 1>>

\* ---------------------------------------------------------------------
\* C8: between checks, success_rate is successes / (successes + failures)
\* x 100 to the nearest tenth and avg is the mean of the latencies of the
\* responses alone to the nearest tenth; count, min and max are over those
\* latencies too. 3 successes of 100, 200 and 300 ms and 2 timeouts give
\* count 3, success_rate 60.0, avg 200.0; five 200 responses of 50 ms give
\* count 5, success_rate 100.0, min = max = avg = 50.
NearestTenth(t, num, den) == 2 * (10 * num - t * den) <= den /\ 2 * (t * den - 10 * num) <= den

C8_StatisticsOfOutcomes ==
    BetweenChecks =>
        LET ms == LatenciesOf(LogResults)
            ok == CountOf(IsOnline, LogResults)
            n == Len(log)
            st == Stats
        IN  /\ st.count = Len(ms)
            /\ n > 0 => NearestTenth(st.success_rate, 100 * ok, n)
            /\ n = 0 => st.success_rate = 0
            /\ Len(ms) > 0 =>
                  /\ NearestTenth(st.avg[1], SeqSum(ms), Len(ms))
                  /\ st.min[1] \in Range(ms) /\ st.max[1] \in Range(ms)
                  /\ \A k \in 1..Len(ms) : st.min[1] <= ms[k] /\ ms[k] <= st.max[1]
            /\ LogResults = <<Response(200, 100), Response(200, 200), Response(200, 300),
                              Raised("Timeout"), Raised("Timeout")>>
                  => (st.count = 3 /\ st.success_rate = 600 /\ st.avg = <<2000>>)
            /\ LogResults = [k \in 1..5 |-> Response(200, 50)]
                  => /\ st.count = 5 /\ st.success_rate = 1000
                     /\ st.min = <<50>> /\ st.max = <<50>> /\ st.avg = <<500>>

C8_Witness ==
    /\ pc = "render" /\ Len(log) = 5
    /\ log[3].result = Response(200, 300) /\ log[5].result = Raised("Timeout")
    /\ Stats.count = 3 /\ Stats.success_rate = 600 /\ Stats.avg = <<2000>>

\* ---------------------------------------------------------------------
\* C9: when count > 0, min <= avg <= max, the rounding of the mean to one
\* decimal included; when count = 0, min, max and avg are None.
C9_AvgBetweenMinAndMax ==
    LET st == Stats
    IN  /\ st.count > 0 =>
              /\ st.min # None /\ st.max # None /\ st.avg # None
              /\ 10 * st.min[1] <= st.avg[1]
              /\ st.avg[1] <= 10 * st.max[1]
        /\ st.count = 0 =>
              (st.min = None /\ st.max = None /\ st.avg = None)

C9_Witness ==
    /\ response_times = <<2, 1, 1>>
    /\ Stats.min = <<1>> /\ Stats.max = <<2>> /\ Stats.avg = <<13>>

\* ---------------------------------------------------------------------
\* C10: when an exception has escaped a tick and ended the loop after at
\* least one complete iteration, a summary has been printed when the process
\* ends.
C10_SummaryAfterLoopFailure ==
    (exited /\ loop_error /\ Len(history) >= 1) => summaries # <<>>

\* ---------------------------------------------------------------- C11
\* A probe has been attempted: requests.get has been called.
ProbeAttempted == log # <<>> \/ pc \in {"append", "classify", "except", "result"}

\* C11: for the command-line URL "not a url" validate_url fails, so no
\* probe is ever attempted. The code prepends http:// and the result has
\* the scheme http and the netloc "not a url", so the test of line 75
\* passes and the loop probes it.
C11_NotAUrlIsRejected == args_url = NotAUrl => ~ProbeAttempted

\* ---------------------------------------------------------------- C12
\* The URL has been normalised and lacks a scheme or a host.
Rejectable == pc \notin {"normalize"} /\ ~WellFormed(url)

\* C12: a URL that, after normalisation, lacks a scheme or a host ends the
\* process with exit code 1 before the loop: no probe, no counter or
\* history change, no summary; and every probe is issued against a URL
\* with a scheme and a host. The handlers are installed before the
\* validation, so a signal that arrives in between prints a summary and
\* exits with code 0.
C12_BadUrlExitsWithOneSilently ==
    /\ Rejectable =>
          /\ ~ProbeAttempted
          /\ success_count = 0 /\ error_count = 0 /\ history = <<>>
          /\ summaries = <<>>
          /\ exited => exit_code = 1
    /\ ProbeAttempted => WellFormed(url)

\* ---------------------------------------------------------------- C13
\* C13: the final summary is printed at most once per session, for any
\* interleaving of signals and a loop-level exception with the loop.
\* handle_exit has no guard against being entered again: a second signal
\* that arrives after line 86 has printed the summary and before line 87
\* has raised SystemExit prints it a second time.
C13_SummaryAtMostOnce == Len(summaries) <= 1

\* ---------------------------------------------------------------- C14
\* C14: the recent-checks block of a tick shows the min(5, k) most recent
\* of the k records of earlier ticks still in history, oldest first, and
\* never the record of the current tick. When the block is drawn history
\* holds the earlier ticks' records only (the current one is appended
\* afterwards), so the block should be the last five of history. The code
\* draws nothing unless history holds more than one record, and drops
\* every earlier record that equals the current one.
C14_ShowsLastFivePrior == (pc = "push") => shown = LastN(history, RecentShown)

\* ---------------------------------------------------------------- C15
\* C15: the wait between two checks is at most `interval` one-second
\* sleeps; a sleep starts only after the running flag was tested and found
\* true, so none starts once it is false; without a signal the wait is
\* exactly `interval` sleeps and the next tick follows it.
C15_WaitIsIntervalSleeps ==
    /\ [](i <= interval)
    /\ [][(clock' # clock \/ i' = i + 1)
             => (pc = "sleep" /\ running /\ i < interval
                 /\ i' = i + 1 /\ clock' = clock + 1)]_vars
    /\ [][(pc = "sleep" /\ pc' # "sleep" /\ signals = 0)
             => (i = interval /\ pc' = "while" /\ running')]_vars
    /\ (pc = "wait" /\ running) ~> (pc = "header" \/ signals > 0)

C15_Witness ==
    /\ pc = "header" /\ Len(log) = 1
    /\ interval > 0 /\ i = interval /\ clock = interval
    /\ signals = 0 /\ running

\* ---------------------------------------------------------------- C16
\* C16: every summary printed uses at most as many latency samples as the
\* Total Checks it reports, also when the signal arrives in the middle of
\* check_website. Line 119 appends the latency before line 124 or 129
\* counts the check; a summary printed by a handler that runs in between
\* has one more sample than checks.
C16_SummarySamplesWithinTotal ==
    \A k \in 1..Len(summaries) : summaries[k].stats.count <= summaries[k].total

====
